---- MODULE Spec2Model ----
(***************************************************************************)
(* Model of libosmium's geometry construction engine                       *)
(* (osmium/geom/factory.hpp, GeometryFactory<G, T>) and of its diff        *)
(* dispatcher (osmium/diff_visitor.hpp, apply_diff).                       *)
(*                                                                         *)
(* A call of the engine is one action.  What a call does is the sequence   *)
(* of backend operations (or handler callbacks) it issues, recorded in     *)
(* order in a "run"; a C++ exception ends the run at the operation that    *)
(* raised it, nothing after the throw is executed.                         *)
(***************************************************************************)
EXTENDS Integers, Sequences, FiniteSets, TLC

VARIABLES wnl, area, diffs, G, last, prior

vars == <<wnl, area, diffs, G, last, prior>>

(***************************************************************************)
(* Bounds of the model.                                                    *)
(***************************************************************************)
NumLocations == 2
MaxNodes == 4

(***************************************************************************)
(* osmium::Location: a coordinate pair or the undefined sentinel that the  *)
(* default constructor produces.  Equality is value equality.              *)
(***************************************************************************)
Undefined == 0

Locations == 0..NumLocations

\* Sequences over S of length 0..n.
RECURSIVE SeqsUpTo(_, _)
SeqsUpTo(S, n) ==
    IF n = 0 THEN {<<>>}
    ELSE LET shorter == SeqsUpTo(S, n - 1)
         IN  shorter \cup {Append(s, x) : s \in {t \in shorter : Len(t) = n - 1}, x \in S}

WayNodeLists == SeqsUpTo(Locations, MaxNodes)

(***************************************************************************)
(* A run: the operations issued so far, the backend's buffer, and how the  *)
(* call stands: "running", "ok" (returned), or the exception propagating.  *)
(***************************************************************************)
NewRun == [trace |-> <<>>, buf |-> <<>>, outcome |-> "running"]

\* A call on the factory object B (static_cast<G*>(this)) starts with the
\* buffer the calls made before have left in it.
RunOn(B) == [NewRun EXCEPT !.buf = B.buf]

(***************************************************************************)
(* Backend G, linestring part of the capability contract.                  *)
(* G.minCoords is the number of coordinates below which the backend's      *)
(* linestring_finish refuses the linestring (0: it never does), G.buf the  *)
(* buffer in which the backend builds a geometry.                          *)
(***************************************************************************)
MinLinestringCoords == 2

NewBackend(m) == [minCoords |-> m, buf |-> <<>>]

Backends == {NewBackend(0), NewBackend(MinLinestringCoords)}

\* Mutation of linestring_start: the buffer is not cleared.
linestring_start_keeping(run) ==
    IF run.outcome # "running" THEN run
    ELSE [run EXCEPT !.trace = Append(@, <<"linestring_start">>)]

linestring_start(run) ==
    IF run.outcome # "running" THEN run
    ELSE [run EXCEPT !.trace = Append(@, <<"linestring_start">>), !.buf = <<>>]

linestring_add_location(run, location) ==
    IF run.outcome # "running" THEN run
    ELSE IF location = Undefined
         THEN [run EXCEPT !.trace = Append(@, <<"linestring_add_location", location>>),
                          !.outcome = "invalid_location"]
         ELSE [run EXCEPT !.trace = Append(@, <<"linestring_add_location", location>>),
                          !.buf = Append(@, location)]

linestring_finish(B, run) ==
    IF run.outcome # "running" THEN run
    ELSE IF Len(run.buf) < B.minCoords
         THEN [run EXCEPT !.trace = Append(@, <<"linestring_finish">>),
                          !.outcome = "geometry_error"]
         ELSE [run EXCEPT !.trace = Append(@, <<"linestring_finish">>),
                          !.outcome = "ok"]

(***************************************************************************)
(* GeometryFactory::create_point.  The argument is a Location, a Node or   *)
(* a NodeRef; of a Node and a NodeRef only the Location is used.  The      *)
(* backend's make_point refuses an undefined Location and builds the point *)
(* of any other.                                                           *)
(***************************************************************************)
Entities == [kind : {"Location", "Node", "NodeRef"}, location : Locations]

make_point(run, location) ==
    IF run.outcome # "running" THEN run
    ELSE IF location = Undefined
         THEN [run EXCEPT !.trace = Append(@, <<"make_point", location>>),
                          !.outcome = "invalid_location"]
         ELSE [run EXCEPT !.trace = Append(@, <<"make_point", location>>),
                          !.buf = <<location>>,
                          !.outcome = "ok"]

\* Mutation of create_point: the Node form builds the point itself and then
\* delegates as well.
create_point_twice(B, entity) ==
    IF entity.kind = "Location" THEN make_point(RunOn(B), entity.location)
    ELSE IF entity.kind = "Node"
         THEN LET once == make_point(RunOn(B), entity.location)
              IN  make_point([once EXCEPT !.outcome = IF @ = "ok" THEN "running" ELSE @],
                             entity.location)
         ELSE make_point(RunOn(B), entity.location)

RECURSIVE create_point(_, _)
create_point(B, entity) ==
    IF entity.kind = "Location" THEN make_point(RunOn(B), entity.location)
    ELSE create_point(B, [kind |-> "Location", location |-> entity.location])

(***************************************************************************)
(* GeometryFactory::create_linestring                                      *)
(***************************************************************************)
\* Mutation of linestring_unique: last_location is not updated.
RECURSIVE linestring_unique_stale(_, _, _, _, _)
linestring_unique_stale(run, nodes, i, step, last_location) ==
    IF i < 1 \/ i > Len(nodes) \/ run.outcome # "running" THEN run
    ELSE IF last_location # nodes[i]
         THEN linestring_unique_stale(linestring_add_location(run, nodes[i]),
                                      nodes, i + step, step, last_location)
         ELSE linestring_unique_stale(run, nodes, i + step, step, last_location)

\* use_nodes::unique loops (factory.hpp 137-155): i is the index of the node
\* visited next, step is +1 (range-for) or -1 (for i = size()-1; i >= 0; --i).
RECURSIVE linestring_unique(_, _, _, _, _)
linestring_unique(run, nodes, i, step, last_location) ==
    IF i < 1 \/ i > Len(nodes) \/ run.outcome # "running" THEN run
    ELSE IF last_location # nodes[i]
         THEN linestring_unique(linestring_add_location(run, nodes[i]),
                                nodes, i + step, step, nodes[i])
         ELSE linestring_unique(run, nodes, i + step, step, last_location)

\* Mutation of linestring_all: the backward loop stops at i > 0.
RECURSIVE linestring_all_short(_, _, _, _)
linestring_all_short(run, nodes, i, step) ==
    IF i < 1 \/ i > Len(nodes) \/ run.outcome # "running" \/ (step = -1 /\ i = 1) THEN run
    ELSE linestring_all_short(linestring_add_location(run, nodes[i]), nodes, i + step, step)

\* use_nodes::all loops (factory.hpp 157-168).
RECURSIVE linestring_all(_, _, _, _)
linestring_all(run, nodes, i, step) ==
    IF i < 1 \/ i > Len(nodes) \/ run.outcome # "running" THEN run
    ELSE linestring_all(linestring_add_location(run, nodes[i]), nodes, i + step, step)

\* Mutation of create_linestring: the engine itself refuses a way of fewer
\* than two nodes.
create_linestring_min(B, nodes, un, dir) ==
    LET started == linestring_start(RunOn(B))
        first   == IF dir = "forward" THEN 1 ELSE Len(nodes)
        step    == IF dir = "forward" THEN 1 ELSE -1
        added   == IF un = "unique"
                   THEN linestring_unique(started, nodes, first, step, Undefined)
                   ELSE linestring_all(started, nodes, first, step)
    IN  IF Len(nodes) < MinLinestringCoords
        THEN [RunOn(B) EXCEPT !.outcome = "geometry_error"]
        ELSE linestring_finish(B, added)

create_linestring(B, nodes, un, dir) ==
    LET started == linestring_start(RunOn(B))
        first   == IF dir = "forward" THEN 1 ELSE Len(nodes)
        step    == IF dir = "forward" THEN 1 ELSE -1
        added   == IF un = "unique"
                   THEN linestring_unique(started, nodes, first, step, Undefined)
                   ELSE linestring_all(started, nodes, first, step)
    IN  linestring_finish(B, added)

(***************************************************************************)
(* Backend G, multipolygon part of the capability contract.  The buffer    *)
(* is the list of polygon entries; an entry is its list of rings, each     *)
(* ring <<kind, coordinates>>.  An outer ring opens a new entry, an inner  *)
(* ring is added to the entry opened last (to a new entry when there is    *)
(* none).                                                                  *)
(***************************************************************************)
multipolygon_start(run) ==
    IF run.outcome # "running" THEN run
    ELSE [run EXCEPT !.trace = Append(@, <<"multipolygon_start">>), !.buf = <<>>]

multipolygon_outer_ring_start(run) ==
    IF run.outcome # "running" THEN run
    ELSE [run EXCEPT !.trace = Append(@, <<"multipolygon_outer_ring_start">>),
                     !.buf = Append(@, << <<"outer", <<>> >> >>)]

multipolygon_inner_ring_start(run) ==
    IF run.outcome # "running" THEN run
    ELSE [run EXCEPT !.trace = Append(@, <<"multipolygon_inner_ring_start">>),
                     !.buf = IF @ = <<>>
                             THEN << << <<"inner", <<>> >> >> >>
                             ELSE [@ EXCEPT ![Len(@)] = Append(@, <<"inner", <<>> >>)]]

multipolygon_add_location(run, location) ==
    IF run.outcome # "running" THEN run
    ELSE IF location = Undefined
         THEN [run EXCEPT !.trace = Append(@, <<"multipolygon_add_location", location>>),
                          !.outcome = "invalid_location"]
         ELSE [run EXCEPT !.trace = Append(@, <<"multipolygon_add_location", location>>),
                          !.buf = IF @ = <<>> THEN @
                                  ELSE [@ EXCEPT ![Len(@)] =
                                          [@ EXCEPT ![Len(@)] =
                                             <<@[1], Append(@[2], location)>>]]]

multipolygon_outer_ring_finish(run) ==
    IF run.outcome # "running" THEN run
    ELSE [run EXCEPT !.trace = Append(@, <<"multipolygon_outer_ring_finish">>)]

multipolygon_inner_ring_finish(run) ==
    IF run.outcome # "running" THEN run
    ELSE [run EXCEPT !.trace = Append(@, <<"multipolygon_inner_ring_finish">>)]

multipolygon_finish(run) ==
    IF run.outcome # "running" THEN run
    ELSE [run EXCEPT !.trace = Append(@, <<"multipolygon_finish">>), !.outcome = "ok"]

(***************************************************************************)
(* GeometryFactory::add_points and GeometryFactory::create_multipolygon    *)
(***************************************************************************)
\* The range-for of add_points; i is the index of the node visited next.
RECURSIVE add_points_from(_, _, _, _)
add_points_from(run, nodes, i, last_location) ==
    IF i > Len(nodes) \/ run.outcome # "running" THEN run
    ELSE IF last_location # nodes[i]
         THEN add_points_from(multipolygon_add_location(run, nodes[i]),
                              nodes, i + 1, nodes[i])
         ELSE add_points_from(run, nodes, i + 1, last_location)

\* Mutation of add_points: last_location outlives the ring, it starts as the
\* Location added last in the call.
add_points_carry(run, nodes) ==
    LET added == SelectSeq(run.trace, LAMBDA e : e[1] = "multipolygon_add_location")
    IN  add_points_from(run, nodes, 1,
                        IF added = <<>> THEN Undefined ELSE added[Len(added)][2])

add_points(run, nodes) == add_points_from(run, nodes, 1, Undefined)

\* Mutation of multipolygon_item: an inner ring is closed as an outer ring.
multipolygon_item_mixed(st, item) ==
    IF item.type = "outer_ring"
    THEN [run |-> multipolygon_outer_ring_finish(
                      add_points(multipolygon_outer_ring_start(st.run), item.nodes)),
          num_rings |-> st.num_rings + 1]
    ELSE IF item.type = "inner_ring"
    THEN [run |-> multipolygon_outer_ring_finish(
                      add_points(multipolygon_inner_ring_start(st.run), item.nodes)),
          num_rings |-> st.num_rings + 1]
    ELSE st

\* Mutation of multipolygon_item: every item that is not an outer ring is
\* taken for an inner ring.
multipolygon_item_else(st, item) ==
    IF item.type = "outer_ring"
    THEN [run |-> multipolygon_outer_ring_finish(
                      add_points(multipolygon_outer_ring_start(st.run), item.nodes)),
          num_rings |-> st.num_rings + 1]
    ELSE [run |-> multipolygon_inner_ring_finish(
                      add_points(multipolygon_inner_ring_start(st.run), item.nodes)),
          num_rings |-> st.num_rings + 1]

\* Mutation of multipolygon_item: every item is counted as a ring.
multipolygon_item_counted(st, item) ==
    IF item.type = "outer_ring"
    THEN [run |-> multipolygon_outer_ring_finish(
                      add_points(multipolygon_outer_ring_start(st.run), item.nodes)),
          num_rings |-> st.num_rings + 1]
    ELSE IF item.type = "inner_ring"
    THEN [run |-> multipolygon_inner_ring_finish(
                      add_points(multipolygon_inner_ring_start(st.run), item.nodes)),
          num_rings |-> st.num_rings + 1]
    ELSE [st EXCEPT !.num_rings = @ + 1]

\* Mutation of multipolygon_item: an inner ring is opened and closed as an
\* outer ring.
multipolygon_item_outer(st, item) ==
    IF item.type = "outer_ring" \/ item.type = "inner_ring"
    THEN [run |-> multipolygon_outer_ring_finish(
                      add_points(multipolygon_outer_ring_start(st.run), item.nodes)),
          num_rings |-> st.num_rings + 1]
    ELSE st

\* One iteration of the loop over the items of the area (factory.hpp 185-196):
\* the run and num_rings after the item.
multipolygon_item(st, item) ==
    IF item.type = "outer_ring"
    THEN [run |-> multipolygon_outer_ring_finish(
                      add_points(multipolygon_outer_ring_start(st.run), item.nodes)),
          num_rings |-> st.num_rings + 1]
    ELSE IF item.type = "inner_ring"
    THEN [run |-> multipolygon_inner_ring_finish(
                      add_points(multipolygon_inner_ring_start(st.run), item.nodes)),
          num_rings |-> st.num_rings + 1]
    ELSE st

RECURSIVE multipolygon_items(_, _, _)
multipolygon_items(st, items, i) ==
    IF i > Len(items) \/ st.run.outcome # "running" THEN st
    ELSE multipolygon_items(multipolygon_item(st, items[i]), items, i + 1)

\* Mutation of create_multipolygon: the area is valid when a Location was
\* added, not when it has a ring.
create_multipolygon_points(B, items) ==
    LET st == multipolygon_items([run |-> multipolygon_start(RunOn(B)), num_rings |-> 0],
                                 items, 1)
        added == SelectSeq(st.run.trace, LAMBDA e : e[1] = "multipolygon_add_location")
    IN  IF st.run.outcome # "running" THEN st.run
        ELSE IF added = <<>>
             THEN [st.run EXCEPT !.outcome = "geometry_error: invalid area"]
             ELSE multipolygon_finish(st.run)

create_multipolygon(B, items) ==
    LET st == multipolygon_items([run |-> multipolygon_start(RunOn(B)), num_rings |-> 0],
                                 items, 1)
    IN  IF st.run.outcome # "running" THEN st.run
        ELSE IF st.num_rings = 0
             THEN [st.run EXCEPT !.outcome = "geometry_error: invalid area"]
             ELSE multipolygon_finish(st.run)

(***************************************************************************)
(* osmium::Area: its items in stored order.  A ring item carries its node  *)
(* locations; any other item (the tag list) carries none.                  *)
(***************************************************************************)
MaxItems == 3
MaxAreaNodes == 3

RECURSIVE SumTo(_, _)
SumTo(f, n) == IF n = 0 THEN 0 ELSE f[n] + SumTo(f, n - 1)

\* The area of the items of the given types, item i holding lens[i] nodes,
\* the nodes of all items being those of flat, in order.
BuildArea(types, lens, flat) ==
    [i \in 1..Len(types) |->
        [type  |-> types[i],
         nodes |-> SubSeq(flat, SumTo(lens, i - 1) + 1, SumTo(lens, i))]]

\* area is an area of at most MaxItems items holding at most MaxAreaNodes
\* nodes in all.
IsArea(a) ==
    \E k \in 0..MaxItems :
        \E types \in [1..k -> {"outer_ring", "inner_ring", "tag_list"}] :
            \E lens \in [1..k -> 0..MaxAreaNodes] :
                /\ SumTo(lens, k) <= MaxAreaNodes
                /\ \A i \in 1..k : types[i] = "tag_list" => lens[i] = 0
                /\ \E flat \in [1..SumTo(lens, k) -> Locations] :
                       a = BuildArea(types, lens, flat)

(***************************************************************************)
(* Diff dispatcher (diff_visitor.hpp).  diffs is the sequence the          *)
(* DiffIterator produces, each diff given by its item type.  Of a run of   *)
(* apply_diff, trace is the callbacks <<callback, handler, diff>> in the   *)
(* order they were invoked and buf the positions of the sequence that      *)
(* were dereferenced.  raises = <<i, j>> is the behaviour of the handlers: *)
(* handler j raises an error in its callback for diff i (<<0, 0>>: no      *)
(* callback raises).                                                       *)
(***************************************************************************)
MaxDiffs == 3
MaxHandlers == 2

ItemTypes == {"node", "way", "relation", "changeset"}

DiffSequences == SeqsUpTo(ItemTypes, MaxDiffs)

\* Mutation of apply_diff_iterator_recurse1: the default case of the switch
\* does nothing.
apply_diff_iterator_recurse1_ignoring(run, diff, raises, i, j) ==
    IF run.outcome # "running" THEN run
    ELSE IF diff \in {"node", "way", "relation"}
         THEN [run EXCEPT !.trace = Append(@, <<diff, j, i>>),
                          !.outcome = IF raises = <<i, j>> THEN "handler_error" ELSE @]
         ELSE run

\* apply_diff_iterator_recurse(diff, handler): the switch on diff.type().
apply_diff_iterator_recurse1(run, diff, raises, i, j) ==
    IF run.outcome # "running" THEN run
    ELSE IF diff \in {"node", "way", "relation"}
         THEN [run EXCEPT !.trace = Append(@, <<diff, j, i>>),
                          !.outcome = IF raises = <<i, j>> THEN "handler_error" ELSE @]
         ELSE [run EXCEPT !.outcome = "runtime_error: unknown type"]

\* Mutation of apply_diff_iterator_recurse: the remaining handlers are served
\* before the first one.
RECURSIVE apply_diff_iterator_recurse_reversed(_, _, _, _, _, _)
apply_diff_iterator_recurse_reversed(run, diff, raises, i, j, n) ==
    IF j = n THEN apply_diff_iterator_recurse1(run, diff, raises, i, j)
    ELSE apply_diff_iterator_recurse1(
             apply_diff_iterator_recurse_reversed(run, diff, raises, i, j + 1, n),
             diff, raises, i, j)

\* apply_diff_iterator_recurse(diff, handler, more...): handlers j..n.
RECURSIVE apply_diff_iterator_recurse(_, _, _, _, _, _)
apply_diff_iterator_recurse(run, diff, raises, i, j, n) ==
    IF j = n THEN apply_diff_iterator_recurse1(run, diff, raises, i, j)
    ELSE apply_diff_iterator_recurse(
             apply_diff_iterator_recurse1(run, diff, raises, i, j),
             diff, raises, i, j + 1, n)

\* Mutation of apply_diff_from: an error of a handler is caught and the loop
\* goes on with the next diff.
RECURSIVE apply_diff_from_catching(_, _, _, _, _)
apply_diff_from_catching(run, ds, n, raises, dit) ==
    IF dit > Len(ds) \/ run.outcome # "running" THEN run
    ELSE LET done == apply_diff_iterator_recurse([run EXCEPT !.buf = Append(@, dit)],
                                                 ds[dit], raises, dit, 1, n)
         IN  apply_diff_from_catching(
                 IF done.outcome = "handler_error"
                 THEN [done EXCEPT !.outcome = "running"] ELSE done,
                 ds, n, raises, dit + 1)

\* for (; dit != dend; ++dit) of apply_diff, from position dit on.
RECURSIVE apply_diff_from(_, _, _, _, _)
apply_diff_from(run, ds, n, raises, dit) ==
    IF dit > Len(ds) \/ run.outcome # "running" THEN run
    ELSE apply_diff_from(
             apply_diff_iterator_recurse([run EXCEPT !.buf = Append(@, dit)],
                                         ds[dit], raises, dit, 1, n),
             ds, n, raises, dit + 1)

apply_diff(ds, n, raises) ==
    LET run == apply_diff_from(NewRun, ds, n, raises, 1)
    IN  IF run.outcome = "running" THEN [run EXCEPT !.outcome = "ok"] ELSE run

(***************************************************************************)
(* The forms of the source of apply_diff.  A pull-based source hands out   *)
(* the sequence buffer by buffer, which an InputIterator walks through to  *)
(* the end of the last buffer; of an in-memory buffer the range is the     *)
(* items written to it, from begin() to end() or from cbegin() to cend().  *)
(***************************************************************************)
\* The source that hands out ds in two buffers, split after position split.
InputSource(ds, split) == <<SubSeq(ds, 1, split), SubSeq(ds, split + 1, Len(ds))>>

\* The buffer to which ds has been written.
BufferOf(ds) == [data |-> ds, written |-> Len(ds)]

RECURSIVE InputRange(_)
InputRange(source) ==
    IF source = <<>> THEN <<>>
    ELSE source[1] \o InputRange(SubSeq(source, 2, Len(source)))

BufferRange(buffer) == SubSeq(buffer.data, 1, buffer.written)

ConstBufferRange(buffer) == SubSeq(buffer.data, 1, buffer.written)

\* Mutation of apply_diff_source: only the first buffer of the source is
\* read.
apply_diff_source_first(source, n, raises) ==
    apply_diff(IF source = <<>> THEN <<>> ELSE source[1], n, raises)

apply_diff_source(source, n, raises) == apply_diff(InputRange(source), n, raises)

apply_diff_buffer(buffer, n, raises) == apply_diff(BufferRange(buffer), n, raises)

apply_diff_const_buffer(buffer, n, raises) ==
    apply_diff(ConstBufferRange(buffer), n, raises)

(***************************************************************************)
(* State machine.  last is the record of the call made last: the          *)
(* operation, its arguments, what it issued and how it ended.              *)
(***************************************************************************)
NoCall == [op |-> "none", args |-> <<>>, trace |-> <<>>, outcome |-> "none", value |-> <<>>]

CallRecord(op, args, run) ==
    [op |-> op, args |-> args, trace |-> run.trace, outcome |-> run.outcome,
     value |-> IF run.outcome = "ok" THEN run.buf ELSE <<>>]

\* The state after a call on the factory: the record of the call, the buffer
\* the call leaves in the backend, and how the call before it had ended.
Called(op, args, run) ==
    /\ last' = CallRecord(op, args, run)
    /\ G' = [G EXCEPT !.buf = run.buf]
    /\ prior' = last.outcome

InitLinestring ==
    /\ wnl \in WayNodeLists
    /\ area = <<>>
    /\ diffs = <<>>
    /\ G \in Backends
    /\ last = NoCall
    /\ prior = "none"

CreateLinestring(un, dir) ==
    /\ Called("create_linestring", <<un, dir>>, create_linestring(G, wnl, un, dir))
    /\ UNCHANGED <<wnl, area, diffs>>

NextLinestring ==
    \E un \in {"unique", "all"}, dir \in {"forward", "backward"} :
        CreateLinestring(un, dir)

SpecLinestring == InitLinestring /\ [][NextLinestring]_vars

InitMultipolygon ==
    /\ wnl = <<>>
    /\ IsArea(area)
    /\ diffs = <<>>
    /\ G = NewBackend(MinLinestringCoords)
    /\ last = NoCall
    /\ prior = "none"

CreateMultipolygon ==
    /\ Called("create_multipolygon", <<>>, create_multipolygon(G, area))
    /\ UNCHANGED <<wnl, area, diffs>>

NextMultipolygon == CreateMultipolygon

SpecMultipolygon == InitMultipolygon /\ [][NextMultipolygon]_vars

InitDiff ==
    /\ wnl = <<>>
    /\ area = <<>>
    /\ diffs \in DiffSequences
    /\ G = NewBackend(MinLinestringCoords)
    /\ last = NoCall
    /\ prior = "none"

\* form is the form in which the call is given the sequence diffs.
SourceForms(ds) ==
    {<<"range", 0>>, <<"buffer", 0>>, <<"const_buffer", 0>>}
        \cup {<<"source", Len(ds) \div 2>>}

ApplyDiff(n, raises, form) ==
    /\ last' = CallRecord("apply_diff", <<n, raises, form>>,
                  CASE form[1] = "range" -> apply_diff(diffs, n, raises)
                    [] form[1] = "source" ->
                           apply_diff_source(InputSource(diffs, form[2]), n, raises)
                    [] form[1] = "buffer" ->
                           apply_diff_buffer(BufferOf(diffs), n, raises)
                    [] form[1] = "const_buffer" ->
                           apply_diff_const_buffer(BufferOf(diffs), n, raises))
    /\ UNCHANGED <<wnl, area, diffs, G, prior>>

NextDiff ==
    \E n \in 1..MaxHandlers :
        \E raises \in {<<0, 0>>} \cup ((1..Len(diffs)) \X (1..n)) :
            \E form \in SourceForms(diffs) :
                ApplyDiff(n, raises, form)

SpecDiff == InitDiff /\ [][NextDiff]_vars

\* One factory used for points, linestrings and multipolygons: the way, the
\* areas its nodes form, and any entity as the argument of create_point.
Ring(type, nodes) == [type |-> type, nodes |-> nodes]

FactoryAreas(nodes) ==
    {<<>>,
     <<Ring("outer_ring", nodes)>>,
     <<Ring("outer_ring", nodes), Ring("tag_list", <<>>), Ring("inner_ring", nodes)>>}

InitFactory ==
    /\ wnl \in WayNodeLists
    /\ area \in FactoryAreas(wnl)
    /\ diffs = <<>>
    /\ G \in Backends
    /\ last = NoCall
    /\ prior = "none"

CreatePoint(entity) ==
    /\ Called("create_point", <<entity>>, create_point(G, entity))
    /\ UNCHANGED <<wnl, area, diffs>>

NextFactory ==
    \/ \E entity \in Entities : CreatePoint(entity)
    \/ \E un \in {"unique", "all"}, dir \in {"forward", "backward"} :
           CreateLinestring(un, dir)
    \/ CreateMultipolygon

SpecFactory == InitFactory /\ [][NextFactory]_vars

(***************************************************************************)
(* Vocabulary of the properties.                                           *)
(***************************************************************************)
Reverse(s) == [k \in 1..Len(s) |-> s[Len(s) + 1 - k]]

\* The Locations a trace passes to the backend operation op, in order.
Passed(trace, op) ==
    LET sel == SelectSeq(trace, LAMBDA e : e[1] = op)
    IN  [k \in 1..Len(sel) |-> sel[k][2]]

\* How often a trace calls the backend operation op.
Count(trace, op) == Len(SelectSeq(trace, LAMBDA e : e[1] = op))

NoAdjacentEqual(s) == \A k \in 1..(Len(s) - 1) : s[k] # s[k + 1]

AllDefined(s) == \A k \in 1..Len(s) : s[k] # Undefined

\* s with every run of adjacent equal elements collapsed to one.
RECURSIVE Collapse(_)
Collapse(s) ==
    IF Len(s) <= 1 THEN s
    ELSE LET front == Collapse(SubSeq(s, 1, Len(s) - 1))
         IN  IF s[Len(s)] = s[Len(s) - 1] THEN front ELSE Append(front, s[Len(s)])

\* The call made last, by the operation called.
IsLinestringCall == last.op = "create_linestring"

IsPointCall == last.op = "create_point"

IsMultipolygonCall == last.op = "create_multipolygon"

IsDiffCall == last.op = "apply_diff"

(***************************************************************************)
(* Properties of create_linestring.                                        *)
(***************************************************************************)
\* C3: in unique mode, in either direction, the Locations passed to
\* linestring_add_location never contain two consecutive equal Locations.
C3_UniqueNoConsecutiveEqual ==
    (IsLinestringCall /\ last.args[1] = "unique")
        => NoAdjacentEqual(Passed(last.trace, "linestring_add_location"))

\* A returned unique-mode call on a way with two adjacent equal defined
\* Locations, from which at least two coordinates remain.
C3_Witness ==
    /\ IsLinestringCall
    /\ last.args[1] = "unique"
    /\ last.outcome = "ok"
    /\ \E n \in 1..(Len(wnl) - 1) : wnl[n] = wnl[n + 1] /\ wnl[n] # Undefined
    /\ Len(last.value) >= 2

\* C4 as stated: a forward call and then a backward call on the same way with
\* the same use_nodes both fail or both succeed, and when they succeed the
\* backward coordinates are the forward coordinates reversed.
C4_BackwardIsReverseOfForward ==
    [][(/\ IsLinestringCall
        /\ last'.op = "create_linestring"
        /\ last.args[1] = last'.args[1]
        /\ last.args[2] = "forward"
        /\ last'.args[2] = "backward")
           => /\ (last.outcome = "ok") <=> (last'.outcome = "ok")
              /\ (last.outcome = "ok") => (last'.value = Reverse(last.value))]_vars

\* C5 as stated: with a backend whose linestring_add_location refuses an
\* undefined Location, create_linestring on a way with an undefined Location
\* at any position fails with invalid_location, in every mode and direction.
C5_UndefinedLocationAlwaysFails ==
    (IsLinestringCall /\ \E n \in 1..Len(wnl) : wnl[n] = Undefined)
        => last.outcome = "invalid_location"

\* C9: in all mode on a way of defined Locations, exactly one coordinate per
\* node is passed to linestring_add_location, in traversal order, duplicates
\* included.
C9_AllKeepsEveryNode ==
    (IsLinestringCall /\ last.args[1] = "all" /\ AllDefined(wnl))
        => Passed(last.trace, "linestring_add_location")
             = IF last.args[2] = "forward" THEN wnl ELSE Reverse(wnl)

\* An all-mode backward call on a way with adjacent duplicates that is not a
\* palindrome.
C9_Witness ==
    /\ IsLinestringCall
    /\ last.args = <<"all", "backward">>
    /\ AllDefined(wnl)
    /\ \E n \in 1..(Len(wnl) - 1) : wnl[n] = wnl[n + 1]
    /\ wnl # Reverse(wnl)
    /\ Len(Passed(last.trace, "linestring_add_location")) = Len(wnl)

(***************************************************************************)
(* Properties of create_multipolygon.                                      *)
(***************************************************************************)
RingItems(items) == SelectSeq(items, LAMBDA it : it.type \in {"outer_ring", "inner_ring"})

Sessions ==
    {<<"linestring_start", "linestring_finish">>,
     <<"multipolygon_start", "multipolygon_finish">>,
     <<"multipolygon_outer_ring_start", "multipolygon_outer_ring_finish">>,
     <<"multipolygon_inner_ring_start", "multipolygon_inner_ring_finish">>}

\* C2 as stated: every session a construction call opens is closed exactly
\* once by its matching finish, however the call exits.
C2_EverySessionClosed ==
    (IsLinestringCall \/ IsMultipolygonCall)
        => \A se \in Sessions : Count(last.trace, se[1]) = Count(last.trace, se[2])

\* C6: an area without ring items fails with geometry_error("invalid area"),
\* returns no value and never reaches multipolygon_finish; an area with a
\* ring item never fails with geometry_error("invalid area").
C6_InvalidAreaIffNoRings ==
    IsMultipolygonCall
        => /\ Len(RingItems(area)) = 0
                => /\ last.outcome = "geometry_error: invalid area"
                   /\ last.value = <<>>
                   /\ Count(last.trace, "multipolygon_finish") = 0
           /\ Len(RingItems(area)) > 0
                => last.outcome # "geometry_error: invalid area"

\* A call on a non-empty area that holds no ring item.
C6_Witness ==
    /\ IsMultipolygonCall
    /\ Len(area) > 0
    /\ Len(RingItems(area)) = 0
    /\ last.outcome = "geometry_error: invalid area"

\* The coordinates of a ring in a call that returns: its defined Locations,
\* adjacent repeats collapsed.
RingCoordinates(nodes) == Collapse(SelectSeq(nodes, LAMBDA l : l # Undefined))

\* Order-based grouping of rings: an outer ring opens an entry, an inner ring
\* is a hole of the entry of the nearest outer ring before it.
RECURSIVE GroupRings(_)
GroupRings(rings) ==
    IF rings = <<>> THEN <<>>
    ELSE LET front == GroupRings(SubSeq(rings, 1, Len(rings) - 1))
             ring  == rings[Len(rings)]
         IN  IF ring.type = "outer_ring"
             THEN Append(front, << <<"outer", RingCoordinates(ring.nodes)>> >>)
             ELSE [front EXCEPT ![Len(front)] =
                       Append(@, <<"inner", RingCoordinates(ring.nodes)>>)]

RingTypes(items) == [n \in 1..Len(RingItems(items)) |-> RingItems(items)[n].type]

\* The ring sessions a trace opens, in order, by the kind of ring.
RingSessions(trace) ==
    LET sel == SelectSeq(trace, LAMBDA e : e[1] \in {"multipolygon_outer_ring_start",
                                                      "multipolygon_inner_ring_start"})
    IN  [k \in 1..Len(sel) |->
            IF sel[k][1] = "multipolygon_outer_ring_start" THEN "outer_ring" ELSE "inner_ring"]

RECURSIVE PassedPerRing(_)
PassedPerRing(trace) ==
    IF trace = <<>> THEN <<>>
    ELSE LET front == PassedPerRing(SubSeq(trace, 1, Len(trace) - 1))
             e     == trace[Len(trace)]
         IN  IF e[1] \in {"multipolygon_outer_ring_start", "multipolygon_inner_ring_start"}
             THEN Append(front, <<>>)
             ELSE IF e[1] = "multipolygon_add_location"
             THEN [front EXCEPT ![Len(front)] = Append(@, e[2])]
             ELSE front

\* C8 as stated: for every ring, the Locations passed to
\* multipolygon_add_location are the ring's Locations in order with every run
\* of adjacent equal Locations collapsed to one.
C8_RingPointsAreCollapsedRing ==
    (IsMultipolygonCall /\ last.outcome = "ok")
        => PassedPerRing(last.trace)
             = [n \in 1..Len(RingItems(area)) |-> Collapse(RingItems(area)[n].nodes)]

(***************************************************************************)
(* Properties of apply_diff.                                               *)
(***************************************************************************)
\* The callbacks of a full dispatch: diff by diff, and for one diff handler
\* by handler in registration order.
ExpectedCallbacks(ds, n) ==
    [k \in 1..(Len(ds) * n) |->
        <<ds[((k - 1) \div n) + 1], ((k - 1) % n) + 1, ((k - 1) \div n) + 1>>]

KnownKinds(ds, m) == \A i \in 1..m : ds[i] \in {"node", "way", "relation"}

\* C1: with n handlers, none raising, and M diffs of kind node, way or
\* relation, apply_diff makes exactly n*M callbacks: every diff goes to every
\* handler once through the callback of its kind, diff after diff and within
\* a diff in registration order, and each position of the source is read
\* once, in order.
C1_DispatchIsDiffMajor ==
    (IsDiffCall /\ KnownKinds(diffs, Len(diffs)) /\ last.args[2] = <<0, 0>>)
        => /\ last.outcome = "ok"
           /\ last.trace = ExpectedCallbacks(diffs, last.args[1])
           /\ Len(last.trace) = last.args[1] * Len(diffs)
           /\ last.value = [i \in 1..Len(diffs) |-> i]

\* A full dispatch of several diffs of different kinds to several handlers.
C1_Witness ==
    /\ IsDiffCall
    /\ last.outcome = "ok"
    /\ last.args[1] >= 2
    /\ Len(diffs) >= 2
    /\ diffs[1] # diffs[2]
    /\ Len(last.trace) = last.args[1] * Len(diffs)

\* C10: when handler j raises in its callback for diff i, apply_diff ends
\* with that error, and the callbacks made are exactly the first
\* (i-1)*n + j of the full dispatch: none for the handlers after j on diff i
\* and none for a later diff.
C10_HandlerErrorAborts ==
    (IsDiffCall /\ last.args[2] # <<0, 0>> /\ KnownKinds(diffs, last.args[2][1]))
        => LET n == last.args[1]
               i == last.args[2][1]
               j == last.args[2][2]
           IN  /\ last.outcome = "handler_error"
               /\ last.trace = SubSeq(ExpectedCallbacks(diffs, n), 1, (i - 1) * n + j)
               /\ last.value = <<>>

\* A handler that is not the last raises on a diff that is not the last.
C10_Witness ==
    /\ IsDiffCall
    /\ last.outcome = "handler_error"
    /\ last.args[2][1] >= 1
    /\ last.args[2][1] < Len(diffs)
    /\ last.args[2][2] < last.args[1]
    /\ Len(last.trace) < last.args[1] * Len(diffs)

\* The position of the first diff whose kind is none of node, way, relation
\* (0 when there is none).
FirstUnknown(ds) ==
    IF KnownKinds(ds, Len(ds)) THEN 0
    ELSE CHOOSE u \in 1..Len(ds) :
             /\ ds[u] \notin {"node", "way", "relation"}
             /\ KnownKinds(ds, u - 1)

\* C11: a diff of a kind outside {node, way, relation} is never skipped: the
\* call does not return normally, no callback is made for that diff or for a
\* later one, and unless a handler raised on an earlier diff the call fails
\* at that diff with the callbacks of the diffs before it all made.
C11_UnknownKindIsFatal ==
    (IsDiffCall /\ FirstUnknown(diffs) > 0)
        => LET u == FirstUnknown(diffs)
               n == last.args[1]
               i == last.args[2][1]
           IN  /\ last.outcome \in {"runtime_error: unknown type", "handler_error"}
               /\ \A k \in 1..Len(last.trace) : last.trace[k][3] < u
               /\ (i = 0 \/ i >= u)
                    => /\ last.outcome = "runtime_error: unknown type"
                       /\ last.trace = SubSeq(ExpectedCallbacks(diffs, n), 1, (u - 1) * n)

\* Several handlers, a diff of unknown kind between two diffs of known kind.
C11_Witness ==
    /\ IsDiffCall
    /\ last.outcome = "runtime_error: unknown type"
    /\ last.args[1] >= 2
    /\ FirstUnknown(diffs) = 2
    /\ Len(diffs) = 3
    /\ diffs[3] \in {"node", "way", "relation"}
    /\ Len(last.trace) = last.args[1]

(***************************************************************************)
(* The minimum coordinate count of a linestring.                           *)
(***************************************************************************)
\* The trace of a linestring session that passes the Locations ls.
LinestringSession(ls) ==
    << <<"linestring_start">> >>
        \o [k \in 1..Len(ls) |-> <<"linestring_add_location", ls[k]>>]
        \o << <<"linestring_finish">> >>

AllSame(s) == \A k \in 1..Len(s) : s[k] = s[1]

C13_PointDelegatesToMakePoint ==
    IsPointCall
        => LET location == last.args[1].location
           IN  /\ last.trace = << <<"make_point", location>> >>
               /\ (location # Undefined)
                     => (last.outcome = "ok" /\ last.value = <<location>>)
               /\ (location = Undefined)
                     => (last.outcome = "invalid_location" /\ last.value = <<>>)

\* create_point on a Node without a Location, failing with invalid_location,
\* on a factory that has built a geometry before.
C13_Witness ==
    /\ IsPointCall
    /\ last.args[1] = [kind |-> "Node", location |-> Undefined]
    /\ last.outcome = "invalid_location"
    /\ prior = "ok"

(***************************************************************************)
(* Reuse of a factory.                                                     *)
(***************************************************************************)
\* The call made last, made on a factory on which nothing has been called.
OnFreshFactory ==
    LET fresh == NewBackend(G.minCoords)
    IN  CASE IsPointCall ->
                 CallRecord(last.op, last.args, create_point(fresh, last.args[1]))
          [] IsLinestringCall ->
                 CallRecord(last.op, last.args,
                            create_linestring(fresh, wnl, last.args[1], last.args[2]))
          [] IsMultipolygonCall ->
                 CallRecord(last.op, last.args, create_multipolygon(fresh, area))
          [] OTHER -> NoCall

\* C14: whatever was called on the factory before, calls that failed with
\* geometry_error or invalid_location included, a call issues the backend
\* operations and has the outcome and the result of the same call on a fresh
\* factory.
C14_CallsAreIndependent ==
    (IsPointCall \/ IsLinestringCall \/ IsMultipolygonCall)
        => /\ last.trace = OnFreshFactory.trace
           /\ last.outcome = OnFreshFactory.outcome
           /\ Len(last.value) = Len(OnFreshFactory.value)
           /\ last.value = OnFreshFactory.value

\* A linestring built after a call on the same way that had failed with
\* invalid_location at its last node, two coordinates then being in the
\* backend's buffer.
C14_Witness ==
    /\ IsLinestringCall
    /\ prior = "invalid_location"
    /\ Len(wnl) = 3
    /\ wnl[1] # Undefined /\ wnl[2] # Undefined /\ wnl[3] = Undefined
    /\ last.args = <<"unique", "backward">>
    /\ last.outcome = "ok"
    /\ last.value = <<wnl[2], wnl[1]>>
    /\ area = <<>>

(***************************************************************************)
(* The multipolygon protocol.                                              *)
(***************************************************************************)
\* The protocol automaton: before the session, in the session between
\* rings, in an outer ring, in an inner ring, after the session.
ProtocolStep(state, op) ==
    CASE state = "before" /\ op = "multipolygon_start" -> "between"
      [] state = "between" /\ op = "multipolygon_outer_ring_start" -> "outer"
      [] state = "between" /\ op = "multipolygon_inner_ring_start" -> "inner"
      [] state = "between" /\ op = "multipolygon_finish" -> "after"
      [] state = "outer" /\ op = "multipolygon_add_location" -> "outer"
      [] state = "outer" /\ op = "multipolygon_outer_ring_finish" -> "between"
      [] state = "inner" /\ op = "multipolygon_add_location" -> "inner"
      [] state = "inner" /\ op = "multipolygon_inner_ring_finish" -> "between"
      [] OTHER -> "violated"

RECURSIVE ProtocolState(_)
ProtocolState(trace) ==
    IF trace = <<>> THEN "before"
    ELSE ProtocolStep(ProtocolState(SubSeq(trace, 1, Len(trace) - 1)),
                      trace[Len(trace)][1])

\* C15: the backend operations of a create_multipolygon call that returns
\* are multipolygon_start, one or more ring sessions (a ring start, any
\* number of multipolygon_add_location, the finish of the same kind), then
\* multipolygon_finish; ring sessions neither overlap nor nest and no
\* Location is added outside a ring session.
C15_WellNestedProtocol ==
    (IsMultipolygonCall /\ last.outcome = "ok")
        => /\ ProtocolState(last.trace) = "after"
           /\ Count(last.trace, "multipolygon_outer_ring_start")
                + Count(last.trace, "multipolygon_inner_ring_start") >= 1

\* A returned call on an area with an outer and an inner ring, both with
\* coordinates.
C15_Witness ==
    /\ IsMultipolygonCall
    /\ last.outcome = "ok"
    /\ Count(last.trace, "multipolygon_outer_ring_start") >= 1
    /\ Count(last.trace, "multipolygon_inner_ring_start") >= 1
    /\ \E k \in 2..(Len(last.trace) - 1) :
           /\ last.trace[k - 1][1] = "multipolygon_inner_ring_start"
           /\ last.trace[k][1] = "multipolygon_add_location"
           /\ last.trace[k + 1][1] = "multipolygon_inner_ring_finish"
    /\ \E k \in 2..(Len(last.trace) - 1) :
           /\ last.trace[k - 1][1] = "multipolygon_outer_ring_start"
           /\ last.trace[k][1] = "multipolygon_add_location"

(***************************************************************************)
(* The reference result of unique mode.                                    *)
(***************************************************************************)
\* The Locations passed when s is traversed and a Location is emitted
\* exactly when none has been emitted yet or it differs from the one
\* emitted before it; an undefined Location that is emitted ends the call.
RECURSIVE UniqueReference(_)
UniqueReference(s) ==
    IF s = <<>> THEN <<>>
    ELSE LET front == UniqueReference(SubSeq(s, 1, Len(s) - 1))
             l     == s[Len(s)]
         IN  IF front = <<>> THEN <<l>>
             ELSE IF front[Len(front)] = Undefined \/ front[Len(front)] = l THEN front
             ELSE Append(front, l)

\* C16 as stated: in unique mode, in either direction, the Locations passed
\* to linestring_add_location are the reference result of traversing the
\* way in that direction.
C16_UniqueIsReference ==
    (IsLinestringCall /\ last.args[1] = "unique")
        => Passed(last.trace, "linestring_add_location")
             = UniqueReference(IF last.args[2] = "forward" THEN wnl ELSE Reverse(wnl))

Defined(nodes) == SelectSeq(nodes, LAMBDA l : l # Undefined)

\* C18: the memory that collapses adjacent repeats starts anew with every
\* ring: of every ring whose session is opened the first defined Location
\* is passed to multipolygon_add_location first, whatever was passed for
\* the ring before it, and in a call that returns every ring is collapsed
\* on its own.
C18_CollapsingStopsAtRingBoundary ==
    IsMultipolygonCall
        => LET per   == PassedPerRing(last.trace)
               rings == RingItems(area)
           IN  /\ Len(per) <= Len(rings)
               /\ \A k \in 1..Len(per) :
                      Defined(rings[k].nodes) # <<>>
                          => /\ per[k] # <<>>
                             /\ per[k][1] = Defined(rings[k].nodes)[1]
               /\ (last.outcome = "ok")
                     => per = [k \in 1..Len(rings) |-> RingCoordinates(rings[k].nodes)]

\* A returned call in which a ring starts with the Location the ring before
\* it ended with.
C18_Witness ==
    /\ IsMultipolygonCall
    /\ last.outcome = "ok"
    /\ \E k \in 1..(Len(PassedPerRing(last.trace)) - 1) :
           LET this == PassedPerRing(last.trace)[k]
               next == PassedPerRing(last.trace)[k + 1]
           IN  /\ this # <<>>
               /\ next # <<>>
               /\ this[Len(this)] = next[1]

(***************************************************************************)
(* Items that are no rings, and rings without nodes.                       *)
(***************************************************************************)
\* C19: an item that is neither an outer nor an inner ring causes no
\* backend call and is not counted: the call issues the operations and has
\* the outcome of the call on the area with those items left out, an area
\* of such items only fails with geometry_error("invalid area") after
\* multipolygon_start alone, and a call that returns has opened one ring
\* session per ring item, of the item's kind and in stored order.
C19_NonRingItemsAreSkipped ==
    IsMultipolygonCall
        => LET rings    == RingItems(area)
               ringsOnly == create_multipolygon(NewBackend(G.minCoords), rings)
           IN  /\ last.trace = ringsOnly.trace
               /\ last.outcome = ringsOnly.outcome
               /\ Len(RingSessions(last.trace)) <= Len(rings)
               /\ RingSessions(last.trace)
                     = SubSeq(RingTypes(area), 1, Len(RingSessions(last.trace)))
               /\ (rings = <<>>)
                     => /\ last.outcome = "geometry_error: invalid area"
                        /\ last.trace = << <<"multipolygon_start">> >>
               /\ (last.outcome = "ok")
                     => /\ RingSessions(last.trace) = RingTypes(area)
                        /\ Len(last.trace)
                              = 2 + 2 * Len(rings)
                                  + Count(last.trace, "multipolygon_add_location")

\* A returned call on an area that holds an item that is no ring between
\* two rings.
C19_Witness ==
    /\ IsMultipolygonCall
    /\ last.outcome = "ok"
    /\ Len(area) = 3
    /\ area[1].type = "outer_ring"
    /\ area[2].type = "tag_list"
    /\ area[3].type = "inner_ring"
    /\ Len(RingSessions(last.trace)) = 2

\* C20: an area with a ring is valid whatever its rings hold: when no ring
\* has a node the call returns, having opened and closed every ring session
\* with no multipolygon_add_location in between and called
\* multipolygon_finish.
C20_ValidityCountsRings ==
    (/\ IsMultipolygonCall
     /\ RingItems(area) # <<>>
     /\ \A k \in 1..Len(RingItems(area)) : RingItems(area)[k].nodes = <<>>)
        => /\ last.outcome = "ok"
           /\ Count(last.trace, "multipolygon_add_location") = 0
           /\ Len(last.trace) = 2 + 2 * Len(RingItems(area))
           /\ ProtocolState(last.trace) = "after"
           /\ last.trace[Len(last.trace)] = <<"multipolygon_finish">>
           /\ \A k \in 1..Len(RingItems(area)) :
                  /\ last.trace[2 * k][1]
                        = IF RingItems(area)[k].type = "outer_ring"
                          THEN "multipolygon_outer_ring_start"
                          ELSE "multipolygon_inner_ring_start"
                  /\ last.trace[2 * k + 1][1]
                        = IF RingItems(area)[k].type = "outer_ring"
                          THEN "multipolygon_outer_ring_finish"
                          ELSE "multipolygon_inner_ring_finish"

\* A returned call on an area of an outer and an inner ring, neither with a
\* node.
C20_Witness ==
    /\ IsMultipolygonCall
    /\ area = <<Ring("outer_ring", <<>>), Ring("inner_ring", <<>>)>>
    /\ last.outcome = "ok"
    /\ Count(last.trace, "multipolygon_finish") = 1

====
